---- MODULE Spec2Model ----
(***************************************************************************)
(* Model of github.com/xyproto/mixorama: the three mixing strategies       *)
(* (LinearSummation, WeightedSummation, RMSMixing) and the sample          *)
(* utilities (FindPeakAmplitude, NormalizeSamples, PadSamples).            *)
(*                                                                         *)
(* A waveform ([]int16) is a sequence of integers in MinInt16..MaxInt16,   *)
(* indexed from 1 (Go index i is TLA+ index i+1).                          *)
(*                                                                         *)
(* float64 values are modelled exactly, not approximately:                 *)
(*   - a weight is kept as an integer number of halves (0.5 is 1), so that *)
(*     every product sample*weight and every partial sum is a multiple of  *)
(*     0.5 far below 2^53 and therefore exact in float64;                  *)
(*   - the sum of squares of RMSMixing is an integer below 2^53, exact in  *)
(*     float64; it is kept as quotient and remainder by the number of      *)
(*     waveforms because the model checker's integers are 32 bits wide;    *)
(*   - int16(f) of a float64 f inside the int16 range truncates toward     *)
(*     zero; outside the range the Go specification leaves the result      *)
(*     implementation-dependent (variable conv).                           *)
(***************************************************************************)
EXTENDS Integers, Sequences, FiniteSets, TLC

MaxInt16 == 32767
MinInt16 == -32768

\* Bounds of the model.
MaxLen == 2
MaxWaves == 2

\* The sample values the utilities' inputs are drawn from: both ends of the
\* int16 range, zero, and a small negative and a small positive value.
SampleVals == {MinInt16, -11, 0, 2, MaxInt16}

\* The sample values the mixing strategies' inputs are drawn from: both ends
\* of the int16 range and zero.  They give sums and means that saturate at
\* either end, that do not, and that have a fractional part.
MixVals == {MinInt16, 0, MaxInt16}

\* The weights the inputs are drawn from, in halves: 0.5 and 1.0.
WeightVals == {1, 2}

\* The target peaks NormalizeSamples is called with.
TargetVals == {MinInt16, -3, 0, 15, MaxInt16}

RECURSIVE SeqsUpTo(_, _)
SeqsUpTo(S, n) ==
    IF n = 0 THEN {<<>>}
    ELSE LET shorter == SeqsUpTo(S, n - 1)
         IN  shorter \cup {Append(q, x) : q \in {r \in shorter : Len(r) = n - 1}, x \in S}

Waveforms == SeqsUpTo(SampleVals, MaxLen)
MixWaveforms == SeqsUpTo(MixVals, MaxLen)
WaveLists == SeqsUpTo(MixWaveforms, MaxWaves)
WeightLists == SeqsUpTo(WeightVals, MaxWaves)

\* The error values of mix.go; NoError is Go's nil error.
NoError == "nil"
ErrNoSamples == "no samples provided"
ErrMismatch == "mismatched sample lengths"
ErrWeights == "number of weights must match number of samples"

VARIABLES
    samples,     \* the waveforms passed to the call (the variadic argument)
    weights,     \* the weights passed to WeightedSummation, in halves
    targetPeak,  \* the targetPeak passed to NormalizeSamples
    conv,        \* what this build's int16(float64) yields for 32768.0
    op,          \* the function that was called, "init" before the call
    out,         \* the returned waveform
    out2,        \* the second returned waveform (PadSamples)
    outNil,      \* TRUE when the returned slice is nil
    err,         \* the returned error
    peak,        \* the int16 returned by FindPeakAmplitude
    divided,     \* TRUE when NormalizeSamples computed targetPeak/currentPeak
    sampleRate,       \* the sampleRate passed to the call
    cutoffFrequency,  \* the cutoffFrequency passed to LowPassFilter
    frequency,        \* the float64 returned by AnalyzeHighestFrequency
    panicked,         \* TRUE when the call ended in a run-time panic
    mem,         \* the backing arrays of the slices, by address
    args,        \* the addresses of the waveforms passed to the call
    ret,         \* the addresses of the waveforms the call returned
    permuted,    \* the same call with its inputs in another order
    disk,        \* the WAV files, by name
    loaded,      \* what LoadWav returned
    pc,          \* the position of the rms command in main
    inputFiles,  \* the file names on the command line
    locals,      \* the local variables of main
    mixed        \* the files passed to RMSMixing so far, in order

mixVars == <<samples, weights, targetPeak, conv, op, out, out2, outNil, err, peak, divided>>
sigVars == <<sampleRate, cutoffFrequency, frequency, panicked>>
memVars == <<mem, args, ret>>
wavVars == <<disk, loaded>>
cmdVars == <<pc, inputFiles, locals, mixed>>

vars == <<mixVars, sigVars, memVars, permuted, wavVars, cmdVars>>

\* The values of the variables a specification does not use.
SigIdle ==
    /\ sampleRate = 0
    /\ cutoffFrequency = "none"
    /\ frequency = [nan |-> FALSE, num |-> 0, den |-> 1]
    /\ panicked = FALSE

MemIdle ==
    /\ mem = <<>>
    /\ args = <<>>
    /\ ret = <<>>

PermIdle == permuted = [samples |-> <<>>, weights |-> <<>>, out |-> <<>>, isNil |-> TRUE, err |-> "nil"]

WavIdle ==
    /\ disk = <<>>
    /\ loaded = [samples |-> <<>>, sampleRate |-> 0, err |-> "nil"]

CmdIdle ==
    /\ pc = "idle"
    /\ inputFiles = <<>>
    /\ locals = [combined |-> <<>>, sampleRate |-> 0, next |-> 0, loudestPeak |-> 0,
                 highestFrequency |-> [nan |-> FALSE, num |-> 0, den |-> 1]]
    /\ mixed = <<>>

others == <<sigVars, memVars, permuted, wavVars, cmdVars>>

OthersIdle == SigIdle /\ MemIdle /\ PermIdle /\ WavIdle /\ CmdIdle

----------------------------------------------------------------------------
\* Arithmetic helpers.

Abs(x) == IF x < 0 THEN -x ELSE x

Sign(x) == IF x < 0 THEN -1 ELSE IF x > 0 THEN 1 ELSE 0

\* a/b truncated toward zero, b > 0: Go's float64 -> integer conversion.
TruncDiv(a, b) == IF a >= 0 THEN a \div b ELSE -((-a) \div b)

\* The largest k in lo..hi with k*k <= m (0 <= m, lo*lo <= m < (hi+1)^2).
RECURSIVE IsqrtIn(_, _, _)
IsqrtIn(lo, hi, m) ==
    IF lo = hi THEN lo
    ELSE LET mid == (lo + hi + 1) \div 2
         IN  IF mid * mid <= m THEN IsqrtIn(mid, hi, m) ELSE IsqrtIn(lo, mid - 1, m)

\* floor(sqrt(m)) for 0 <= m <= 2^30.
Isqrt(m) == IsqrtIn(0, 32768, m)

Fail(e) == [combined |-> <<>>, isNil |-> TRUE, err |-> e]
Ok(w) == [combined |-> w, isNil |-> FALSE, err |-> NoError]

----------------------------------------------------------------------------
\* LinearSummation.

\* The narrowing int16(sum) without the clamp: two's complement wrap-around.
ClampInt32_wrap(sum) == ((sum - MinInt16) % 65536) + MinInt16

\* The clamp of LinearSummation followed by the narrowing int16(sum).
ClampInt32(sum) ==
    IF sum > MaxInt16 THEN MaxInt16
    ELSE IF sum < MinInt16 THEN MinInt16
    ELSE sum

\* The inner loop "for _, sample := range samples" at index i, from waveform
\* j on.  The int32 accumulator cannot overflow: it adds at most MaxWaves
\* 16-bit values.
RECURSIVE LinearInner(_, _, _, _, _)
LinearInner(ws, numSamples, i, j, sum) ==
    IF j > Len(ws) THEN [ok |-> TRUE, sum |-> sum]
    ELSE IF Len(ws[j]) # numSamples THEN [ok |-> FALSE, sum |-> 0]
    ELSE LinearInner(ws, numSamples, i, j + 1, sum + ws[j][i])

\* The outer loop "for i := 0; i < numSamples; i++".
RECURSIVE LinearOuter(_, _, _, _)
LinearOuter(ws, numSamples, i, combined) ==
    IF i > numSamples THEN Ok(combined)
    ELSE LET r == LinearInner(ws, numSamples, i, 1, 0)
         IN  IF ~r.ok THEN Fail(ErrMismatch)
             ELSE LinearOuter(ws, numSamples, i + 1, Append(combined, ClampInt32(r.sum)))

LinearSummation(ws) ==
    IF Len(ws) = 0 THEN Fail(ErrNoSamples)
    ELSE LinearOuter(ws, Len(ws[1]), 1, <<>>)

----------------------------------------------------------------------------
\* WeightedSummation.  The float64 accumulator is held in halves (sum2 is
\* twice the float64 value).

\* The conversion taken as rounding down instead of toward zero.
ClampHalves_floor(sum2) ==
    IF sum2 > 2 * MaxInt16 THEN MaxInt16
    ELSE IF sum2 < 2 * MinInt16 THEN MinInt16
    ELSE sum2 \div 2

\* The clamp of WeightedSummation followed by the conversion int16(sum).
ClampHalves(sum2) ==
    IF sum2 > 2 * MaxInt16 THEN MaxInt16
    ELSE IF sum2 < 2 * MinInt16 THEN MinInt16
    ELSE TruncDiv(sum2, 2)

RECURSIVE WeightedInner(_, _, _, _, _, _)
WeightedInner(ws, wts, numSamples, i, j, sum2) ==
    IF j > Len(ws) THEN [ok |-> TRUE, sum |-> sum2]
    ELSE IF Len(ws[j]) # numSamples THEN [ok |-> FALSE, sum |-> 0]
    ELSE WeightedInner(ws, wts, numSamples, i, j + 1, sum2 + ws[j][i] * wts[j])

RECURSIVE WeightedOuter(_, _, _, _, _)
WeightedOuter(ws, wts, numSamples, i, combined) ==
    IF i > numSamples THEN Ok(combined)
    ELSE LET r == WeightedInner(ws, wts, numSamples, i, 1, 0)
         IN  IF ~r.ok THEN Fail(ErrMismatch)
             ELSE WeightedOuter(ws, wts, numSamples, i + 1, Append(combined, ClampHalves(r.sum)))

\* The two argument checks in the opposite order.
WeightedSummation_emptyFirst(wts, ws) ==
    IF Len(ws) = 0 THEN Fail(ErrNoSamples)
    ELSE IF Len(wts) # Len(ws) THEN Fail(ErrWeights)
    ELSE WeightedOuter(ws, wts, Len(ws[1]), 1, <<>>)

\* The weight count checked with < instead of !=.
WeightedSummation_tooFewOnly(wts, ws) ==
    IF Len(wts) < Len(ws) THEN Fail(ErrWeights)
    ELSE IF Len(ws) = 0 THEN Fail(ErrNoSamples)
    ELSE WeightedOuter(ws, wts, Len(ws[1]), 1, <<>>)

WeightedSummation(wts, ws) ==
    IF Len(wts) # Len(ws) THEN Fail(ErrWeights)
    ELSE IF Len(ws) = 0 THEN Fail(ErrNoSamples)
    ELSE WeightedOuter(ws, wts, Len(ws[1]), 1, <<>>)

----------------------------------------------------------------------------
\* RMSMixing.  sumSquares is the pair (q, r) with sumSquares = q*n + r and
\* n = len(samples); r may exceed n while accumulating.

\* math.Sqrt(sumSquares / n) as the pair (floor, exact): its integer part
\* and whether it is that integer exactly.  The float64 quotient and root
\* are within 2^-21 of the real values, which are either an integer or at
\* least 1/(2*46341*n) away from one, so the rounding of the two float64
\* operations never moves the result across an integer.
RmsOf(q, r, n) ==
    LET mean == q + (r \div n)
        k == Isqrt(mean)
    IN  [floor |-> k, exact |-> (k * k = mean /\ r % n = 0)]

\* The upper clamp left out: a root above MaxInt16 is then converted out of
\* range, here to MinInt16.
ClampRms_wrap(rms) ==
    IF rms.floor > MaxInt16 THEN MinInt16
    ELSE rms.floor

\* The conversion taken as rounding up instead of toward zero.
ClampRms_roundUp(rms) ==
    IF rms.floor >= MaxInt16 THEN MaxInt16
    ELSE IF rms.exact THEN rms.floor
    ELSE rms.floor + 1

\* The clamp of RMSMixing followed by the conversion int16(rms).
ClampRms(rms) ==
    IF rms.floor > MaxInt16 \/ (rms.floor = MaxInt16 /\ ~rms.exact) THEN MaxInt16
    ELSE IF rms.floor < MinInt16 THEN MinInt16
    ELSE rms.floor

RECURSIVE RMSInner(_, _, _, _, _, _)
RMSInner(ws, numSamples, i, j, q, r) ==
    IF j > Len(ws) THEN [ok |-> TRUE, q |-> q, r |-> r]
    ELSE IF Len(ws[j]) # numSamples THEN [ok |-> FALSE, q |-> 0, r |-> 0]
    ELSE LET sq == ws[j][i] * ws[j][i]
         IN  RMSInner(ws, numSamples, i, j + 1, q + (sq \div Len(ws)), r + (sq % Len(ws)))

RECURSIVE RMSOuter(_, _, _, _)
RMSOuter(ws, numSamples, i, combined) ==
    IF i > numSamples THEN Ok(combined)
    ELSE LET s == RMSInner(ws, numSamples, i, 1, 0, 0)
         IN  IF ~s.ok THEN Fail(ErrMismatch)
             ELSE RMSOuter(ws, numSamples, i + 1,
                           Append(combined, ClampRms(RmsOf(s.q, s.r, Len(ws)))))

RMSMixing(ws) ==
    IF Len(ws) = 0 THEN Fail(ErrNoSamples)
    ELSE RMSOuter(ws, Len(ws[1]), 1, <<>>)

----------------------------------------------------------------------------
\* The calls of the mixing strategies.

Init ==
    /\ samples \in WaveLists
    /\ weights = <<>>
    /\ targetPeak = 0
    /\ conv = MinInt16
    /\ op = "init"
    /\ out = <<>>
    /\ out2 = <<>>
    /\ outNil = TRUE
    /\ err = NoError
    /\ peak = 0
    /\ divided = FALSE
    /\ OthersIdle

Return(name, res) ==
    /\ op' = name
    /\ out' = res.combined
    /\ outNil' = res.isNil
    /\ err' = res.err

CallLinearSummation ==
    /\ op = "init"
    /\ Return("LinearSummation", LinearSummation(samples))
    /\ UNCHANGED <<samples, weights, targetPeak, conv, out2, peak, divided>>
    /\ UNCHANGED others

CallWeightedSummation ==
    /\ op = "init"
    /\ \E wts \in WeightLists :
        /\ weights' = wts
        /\ Return("WeightedSummation", WeightedSummation(wts, samples))
    /\ UNCHANGED <<samples, targetPeak, conv, out2, peak, divided>>
    /\ UNCHANGED others

CallRMSMixing ==
    /\ op = "init"
    /\ Return("RMSMixing", RMSMixing(samples))
    /\ UNCHANGED <<samples, weights, targetPeak, conv, out2, peak, divided>>
    /\ UNCHANGED others

Next ==
    \/ CallLinearSummation
    \/ CallWeightedSummation
    \/ CallRMSMixing

Spec == Init /\ [][Next]_vars

----------------------------------------------------------------------------
\* FindPeakAmplitude.

\* The values int16(f) may yield for f = 32768.0, which int16 cannot
\* represent: the Go specification makes the result implementation-dependent
\* (MinInt16, the wrapped value, is what the gc compiler gives on amd64 and
\* arm64; MaxInt16 is a saturating conversion).
ConvOutcomes == {MinInt16, 0, MaxInt16}

\* int16(math.Abs(float64(sample))).  math.Abs is exact; the conversion is
\* the identity unless sample is MinInt16, whose absolute value is 32768.
AbsInt16(sample) == IF sample = MinInt16 THEN conv ELSE Abs(sample)

\* The loop "for _, sample := range samples" from index i on.
RECURSIVE FindPeakFrom(_, _, _)
FindPeakFrom(w, i, maxAmplitude) ==
    IF i > Len(w) THEN maxAmplitude
    ELSE LET abs == AbsInt16(w[i])
         IN  FindPeakFrom(w, i + 1, IF abs > maxAmplitude THEN abs ELSE maxAmplitude)

FindPeakAmplitude(w) == FindPeakFrom(w, 1, 0)

----------------------------------------------------------------------------
\* NormalizeSamples.  With x = samples[i], t = targetPeak, p = currentPeak
\* the code computes the float64 product x * (t / p): a rounded quotient,
\* then a rounded product.  The real value x*t/p is either an integer or at
\* least 1/p >= 2^-15 away from one, while the two roundings move the result
\* by less than 2^-21; so the integer part of the float64 product is that of
\* x*t/p unless x*t/p is an integer n and the product falls just short of n.

\* floor(log2(m)), m >= 1.
RECURSIVE FloorLog2(_)
FloorLog2(m) == IF m < 2 THEN 0 ELSE 1 + FloorLog2(m \div 2)

\* The least h with a * 2^h >= b, counted from h (0 < a < b).
RECURSIVE DoublingsTo(_, _, _)
DoublingsTo(a, b, h) == IF a >= b THEN h ELSE DoublingsTo(2 * a, b, h + 1)

\* floor(log2(a / b)), a, b >= 1: the binary exponent of the quotient.
FloorLog2Ratio(a, b) == IF a >= b THEN FloorLog2(a \div b) ELSE -DoublingsTo(a, b, 0)

RECURSIVE Pow2(_)
Pow2(k) == IF k = 0 THEN 1 ELSE 2 * Pow2(k - 1)

\* 2^s mod p.
RECURSIVE PowMod2(_, _)
PowMod2(s, p) == IF s = 0 THEN 1 % p ELSE (2 * PowMod2(s - 1, p)) % p

\* For X, T, p >= 1 with p | X*T and n = X*T/p: the float64 product
\* X * (T / p) is below n.  With g the exponent of T/p, the quotient is
\* rounded to a multiple of 2^(g-52); r is the remainder of T*2^(52-g) by p,
\* so the quotient is rounded down, by r/(p*2^(52-g)), iff 0 < 2r < p.  The
\* product is then n - X*r/(p*2^(52-g)), which rounds to a float64 below n
\* iff that deficit exceeds half the gap between n and the float64 before
\* it: 2^(e-53), or 2^(e-54) when n is the power of two 2^e.
ProductFallsShort(X, T, p) ==
    LET n == (X * T) \div p
        g == FloorLog2Ratio(T, p)
        e == FloorLog2(n)
        r == ((T % p) * PowMod2(52 - g, p)) % p
        k == (e - g - 1) - (IF n = Pow2(e) THEN 1 ELSE 0)
    IN  /\ r # 0
        /\ 2 * r < p
        /\ IF k >= 0 THEN X * r > p * Pow2(k)
           ELSE IF k = -1 THEN 2 * X * r > p
           ELSE 4 * X * r > p

\* normalized := float64(samples[i]) * scale with scale = t/p, as the pair
\* (int, frac): its integer part (toward zero) and whether it has a
\* fractional part.
Normalized(x, t, p) ==
    LET X == Abs(x)
        T == Abs(t)
        sg == Sign(x) * Sign(t)
        n == (X * T) \div p
    IN  IF (X * T) % p # 0 THEN [int |-> sg * n, frac |-> TRUE]
        ELSE IF n > 0 /\ ProductFallsShort(X, T, p) THEN [int |-> sg * (n - 1), frac |-> TRUE]
        ELSE [int |-> sg * n, frac |-> FALSE]

\* The clamp of NormalizeSamples and the conversion int16(normalized).
ClampNormalized(f) ==
    IF f.int > MaxInt16 \/ (f.int = MaxInt16 /\ f.frac) THEN MaxInt16
    ELSE IF f.int < MinInt16 \/ (f.int = MinInt16 /\ f.frac) THEN MinInt16
    ELSE f.int

\* The zero-peak guard left out: scale is then +-Inf or NaN, every product
\* is too, and what is stored is an out-of-range conversion.
NormalizeSamples_noGuard(w, t) ==
    LET currentPeak == FindPeakAmplitude(w)
    IN  IF currentPeak = 0
        THEN [out |-> [i \in 1..Len(w) |-> conv], divided |-> TRUE]
        ELSE [out |-> [i \in 1..Len(w) |-> ClampNormalized(Normalized(w[i], t, currentPeak))],
              divided |-> TRUE]

NormalizeSamples(w, t) ==
    LET currentPeak == FindPeakAmplitude(w)
    IN  IF currentPeak = 0
        THEN [out |-> w, divided |-> FALSE]
        ELSE [out |-> [i \in 1..Len(w) |-> ClampNormalized(Normalized(w[i], t, currentPeak))],
              divided |-> TRUE]

----------------------------------------------------------------------------
\* PadSamples.

\* make([]int16, n) followed by copy(padded, w), n >= len(w).
ZeroPadded(w, n) == [i \in 1..n |-> IF i <= Len(w) THEN w[i] ELSE 0]

\* The comparison reversed: the new buffer gets the shorter length and copy
\* stops when it is full.
PadSamples_reversed(wave1, wave2) ==
    IF Len(wave1) = Len(wave2) THEN <<wave1, wave2>>
    ELSE IF Len(wave1) > Len(wave2) THEN <<SubSeq(wave1, 1, Len(wave2)), wave2>>
    ELSE <<wave1, SubSeq(wave2, 1, Len(wave1))>>

\* No padding at all: both waveforms returned as they came.
PadSamples_unpadded(wave1, wave2) == <<wave1, wave2>>

PadSamples(wave1, wave2) ==
    IF Len(wave1) = Len(wave2) THEN <<wave1, wave2>>
    ELSE IF Len(wave1) < Len(wave2) THEN <<ZeroPadded(wave1, Len(wave2)), wave2>>
    ELSE <<wave1, ZeroPadded(wave2, Len(wave1))>>

----------------------------------------------------------------------------
\* The calls of the sample utilities, on the first waveform or on the pair.

WavePairs == {<<a, b>> : a \in Waveforms, b \in Waveforms}

InitUtil ==
    /\ samples \in WavePairs
    /\ weights = <<>>
    /\ targetPeak = 0
    /\ conv \in ConvOutcomes
    /\ op = "init"
    /\ out = <<>>
    /\ out2 = <<>>
    /\ outNil = TRUE
    /\ err = NoError
    /\ peak = 0
    /\ divided = FALSE
    /\ OthersIdle

CallFindPeakAmplitude ==
    /\ op = "init"
    /\ op' = "FindPeakAmplitude"
    /\ peak' = FindPeakAmplitude(samples[1])
    /\ UNCHANGED <<samples, weights, targetPeak, conv, out, out2, outNil, err, divided>>
    /\ UNCHANGED others

CallNormalizeSamples ==
    /\ op = "init"
    /\ \E t \in TargetVals :
        LET res == NormalizeSamples(samples[1], t)
        IN  /\ targetPeak' = t
            /\ out' = res.out
            /\ divided' = res.divided
    /\ op' = "NormalizeSamples"
    /\ outNil' = FALSE
    /\ UNCHANGED <<samples, weights, conv, out2, err, peak>>
    /\ UNCHANGED others

CallPadSamples ==
    /\ op = "init"
    /\ LET res == PadSamples(samples[1], samples[2])
       IN  /\ out' = res[1]
           /\ out2' = res[2]
    /\ op' = "PadSamples"
    /\ outNil' = FALSE
    /\ UNCHANGED <<samples, weights, targetPeak, conv, err, peak, divided>>
    /\ UNCHANGED others

NextUtil ==
    \/ CallFindPeakAmplitude
    \/ CallNormalizeSamples
    \/ CallPadSamples

SpecUtil == InitUtil /\ [][NextUtil]_vars

----------------------------------------------------------------------------
\* What the claims are stated with.

Mixers == {"LinearSummation", "WeightedSummation", "RMSMixing"}

Min(a, b) == IF a < b THEN a ELSE b
Max(a, b) == IF a > b THEN a ELSE b

\* saturate: the value clamped into the sample range.
Saturate(v) == Max(MinInt16, Min(MaxInt16, v))

\* All waveforms of the list are as long as the first.
EqualLength(ws) == \A j \in 1..Len(ws) : Len(ws[j]) = Len(ws[1])

\* The exact integer sum of the samples at index i of the first n waveforms.
RECURSIVE SumAt(_, _, _)
SumAt(ws, i, n) == IF n = 0 THEN 0 ELSE SumAt(ws, i, n - 1) + ws[n][i]

\* n2/2 rounded to the nearest integer, a half away from zero (math.Round).
RoundHalfAway(n2) == IF n2 >= 0 THEN (n2 + 1) \div 2 ELSE -((1 - n2) \div 2)

\* n2/2 rounded to the nearest integer, a half to the even neighbour
\* (math.RoundToEven).
RoundHalfEven(n2) ==
    LET f == n2 \div 2
    IN  IF n2 % 2 = 0 \/ f % 2 = 0 THEN f ELSE f + 1

\* The readings of "n2/2 rounded to the nearest integer".
RoundHalf(n2) == {RoundHalfAway(n2), RoundHalfEven(n2)}

\* k is sqrt((a^2 + b^2)/2) rounded down: k^2 <= (a^2+b^2)/2 < (k+1)^2,
\* written with differences that stay below 2^31.
IsFloorRoot(k, a, b) ==
    /\ k >= 0
    /\ k * k - a * a <= b * b - k * k
    /\ (k + 1) * (k + 1) - a * a > b * b - (k + 1) * (k + 1)

\* k is sqrt((a^2 + b^2)/2) rounded to the nearest integer:
\* k - 1/2 <= sqrt((a^2+b^2)/2) < k + 1/2, that is (the mean is a multiple
\* of 1/2) a^2 + b^2 <= 2(k^2 + k) and, for k >= 1, 2(k^2 - k) < a^2 + b^2.
IsRoundRoot(k, a, b) ==
    /\ k >= 0
    /\ k = 0 \/ a * a - (k * k - k) > (k * k - k) - b * b
    /\ a * a - (k * k + k) <= (k * k + k) - b * b

\* C1: for a non-empty list of equal-length waveforms LinearSummation
\* succeeds with a waveform of the same length whose sample at every index
\* is the exact sum of the inputs' samples there, clamped to the int16 range.
C1_LinearSumSaturates ==
    (op = "LinearSummation" /\ Len(samples) > 0 /\ EqualLength(samples)) =>
        /\ err = NoError
        /\ ~outNil
        /\ Len(out) = Len(samples[1])
        /\ \A i \in 1..Len(out) : out[i] = Saturate(SumAt(samples, i, Len(samples)))

C1_Witness ==
    /\ op = "LinearSummation"
    /\ Len(samples) = 2
    /\ EqualLength(samples)
    /\ \E i \in 1..Len(out) :
        /\ SumAt(samples, i, 2) > MaxInt16
        /\ out[i] = MaxInt16

\* C2 (as claimed): whenever a waveform's length differs from the first
\* waveform's length, also when the first is empty, each mixing strategy
\* (WeightedSummation with a matching weight count) fails with the
\* length-mismatch error and returns no waveform.
C2_MismatchAlwaysFails ==
    (/\ op \in Mixers
     /\ Len(samples) > 0
     /\ ~EqualLength(samples)
     /\ (op = "WeightedSummation" => Len(weights) = Len(samples))) =>
        (err = ErrMismatch /\ outNil)

\* C3 (as claimed): with zero waveforms every mixing strategy fails with the
\* empty-input error, WeightedSummation for every weight list.
C3_EmptyInputFails ==
    (op \in Mixers /\ Len(samples) = 0) => (err = ErrNoSamples /\ outNil)

\* C3 (amended): with zero waveforms LinearSummation and RMSMixing fail with
\* the empty-input error; WeightedSummation fails with it when the weight
\* list is empty too, and with the weight-count error when it is not.
C3_EmptyInputFailsAmended ==
    (op \in Mixers /\ Len(samples) = 0) =>
        /\ outNil
        /\ err = IF op = "WeightedSummation" /\ Len(weights) # 0
                 THEN ErrWeights ELSE ErrNoSamples

C3_Witness ==
    /\ op = "WeightedSummation"
    /\ Len(samples) = 0
    /\ Len(weights) = 0
    /\ err = ErrNoSamples

\* C4: WeightedSummation fails with the weight-count error and no waveform
\* whenever the number of weights differs from the number of waveforms, and
\* never with that error when the two are equal.
C4_WeightCountMismatch ==
    op = "WeightedSummation" =>
        /\ Len(weights) # Len(samples) => (err = ErrWeights /\ outNil)
        /\ Len(weights) = Len(samples) => err # ErrWeights

C4_Witness ==
    /\ op = "WeightedSummation"
    /\ Len(weights) > Len(samples)
    /\ Len(samples) > 0
    /\ err = ErrWeights

\* C5 (as claimed): with weights [0.5, 0.5] and equal-length a, b every
\* output sample is the half-sum rounded to the nearest integer (by either
\* rule for a half) and clamped.
C5_WeightedHalfSumRounded ==
    (/\ op = "WeightedSummation"
     /\ weights = <<1, 1>>
     /\ Len(samples) = 2
     /\ EqualLength(samples)) =>
        /\ err = NoError
        /\ Len(out) = Len(samples[1])
        /\ \A i \in 1..Len(out) :
            \E r \in RoundHalf(samples[1][i] + samples[2][i]) : out[i] = Saturate(r)

\* C5 (amended): with weights [0.5, 0.5] and equal-length a, b every output
\* sample is the half-sum truncated toward zero and clamped.
C5_WeightedHalfSumTruncated ==
    (/\ op = "WeightedSummation"
     /\ weights = <<1, 1>>
     /\ Len(samples) = 2
     /\ EqualLength(samples)) =>
        /\ err = NoError
        /\ Len(out) = Len(samples[1])
        /\ \A i \in 1..Len(out) :
            out[i] = Saturate(TruncDiv(samples[1][i] + samples[2][i], 2))

C5_Witness ==
    /\ op = "WeightedSummation"
    /\ weights = <<1, 1>>
    /\ Len(samples) = 2
    /\ EqualLength(samples)
    /\ \E i \in 1..Len(out) :
        /\ samples[1][i] + samples[2][i] = -1
        /\ out[i] = 0

\* C6 (as claimed): for equal-length a, b every output sample of RMSMixing
\* is sqrt((a[i]^2 + b[i]^2)/2) rounded to the nearest integer and clamped.
C6_RMSRounded ==
    (op = "RMSMixing" /\ Len(samples) = 2 /\ EqualLength(samples)) =>
        /\ err = NoError
        /\ Len(out) = Len(samples[1])
        /\ \A i \in 1..Len(out) :
            \E f \in {out[i], MaxInt16 + 1} :
                /\ IsRoundRoot(f, samples[1][i], samples[2][i])
                /\ out[i] = Saturate(f)

\* C6 (amended): for equal-length a, b every output sample of RMSMixing is
\* sqrt((a[i]^2 + b[i]^2)/2) truncated to an integer and clamped.
C6_RMSTruncated ==
    (op = "RMSMixing" /\ Len(samples) = 2 /\ EqualLength(samples)) =>
        /\ err = NoError
        /\ Len(out) = Len(samples[1])
        /\ \A i \in 1..Len(out) :
            \E f \in {out[i], MaxInt16 + 1} :
                /\ IsFloorRoot(f, samples[1][i], samples[2][i])
                /\ out[i] = Saturate(f)

C6_Witness ==
    /\ op = "RMSMixing"
    /\ Len(samples) = 2
    /\ EqualLength(samples)
    /\ \E i \in 1..Len(out) :
        /\ samples[1][i] = MaxInt16
        /\ samples[2][i] = 0
        /\ out[i] = 23169

\* The largest of the samples' absolute values, each capped at MaxInt16;
\* 0 for the empty waveform.
MaxAbsCapped(w) ==
    IF Len(w) = 0 THEN 0
    ELSE LET caps == {Min(Abs(w[i]), MaxInt16) : i \in 1..Len(w)}
         IN  CHOOSE m \in caps : \A c \in caps : c <= m

\* C7 (as claimed): FindPeakAmplitude returns the maximum of the absolute
\* sample values, the absolute value of -32768 capped to 32767, and 0 for
\* the empty waveform; so it is never below the absolute value of a sample
\* other than -32768.
C7_PeakIsMaxAbs ==
    op = "FindPeakAmplitude" =>
        /\ peak = MaxAbsCapped(samples[1])
        /\ \A i \in 1..Len(samples[1]) :
            samples[1][i] # MinInt16 => peak >= Abs(samples[1][i])

\* C8 (as claimed, on the inputs where nothing but the scaling decides:
\* targetPeak >= 0 and no sample -32768): when the peak of w is not 0, the
\* peak of NormalizeSamples(w, targetPeak) is targetPeak.
C8_NormalizedPeakIsTarget ==
    (/\ op = "NormalizeSamples"
     /\ targetPeak >= 0
     /\ \A i \in 1..Len(samples[1]) : samples[1][i] # MinInt16
     /\ FindPeakAmplitude(samples[1]) # 0) =>
        FindPeakAmplitude(out) = targetPeak

\* C9: when the current peak of the input is 0, NormalizeSamples returns the
\* input waveform unchanged for every targetPeak and divides nothing.
C9_ZeroPeakUnchanged ==
    (op = "NormalizeSamples" /\ FindPeakAmplitude(samples[1]) = 0) =>
        (out = samples[1] /\ ~divided)

C9_Witness ==
    /\ op = "NormalizeSamples"
    /\ Len(samples[1]) >= 1
    /\ \A i \in 1..Len(samples[1]) : samples[1][i] = 0
    /\ targetPeak # 0
    /\ out = samples[1]

\* C10: PadSamples returns two waveforms of length max(len(a), len(b)); each
\* keeps its input's samples as a prefix, followed only by zeros, so the
\* longer input and equal-length inputs come back unchanged and no result is
\* shorter than its input.
C10_PadSamples ==
    op = "PadSamples" =>
        LET a == samples[1]
            b == samples[2]
            m == Max(Len(a), Len(b))
        IN  /\ Len(out) = m
            /\ Len(out2) = m
            /\ Len(a) >= Len(b) => out = a
            /\ Len(b) >= Len(a) => out2 = b
            /\ \A i \in 1..m : out[i] = IF i <= Len(a) THEN a[i] ELSE 0
            /\ \A i \in 1..m : out2[i] = IF i <= Len(b) THEN b[i] ELSE 0

C10_Witness ==
    /\ op = "PadSamples"
    /\ Len(samples[1]) > Len(samples[2])
    /\ Len(samples[2]) >= 1
    /\ samples[2][1] # 0
    /\ Len(out2) = Len(samples[1])
    /\ out2[Len(out2)] = 0
    /\ out = samples[1]

----------------------------------------------------------------------------
\* AnalyzeHighestFrequency: the zero-crossing estimate of the frequency.

MaxSigLen == 3
SampleRates == {8000, 44100}
SigWaveforms == SeqsUpTo(SampleVals, MaxSigLen)

\* The test of the loop body: a change of strict sign between two samples.
IsCrossing_orZero(a, b) == (a >= 0 /\ b <= 0) \/ (a <= 0 /\ b >= 0)

IsCrossing(a, b) == (a > 0 /\ b < 0) \/ (a < 0 /\ b > 0)

\* The loop over i = 1 .. l-1 (0-based), here i = 2 .. l.
RECURSIVE ZeroCrossingsFrom(_, _, _)
ZeroCrossingsFrom(w, i, zeroCrossings) ==
    IF i > Len(w) THEN zeroCrossings
    ELSE ZeroCrossingsFrom(w, i + 1,
            IF IsCrossing(w[i - 1], w[i]) THEN zeroCrossings + 1 ELSE zeroCrossings)

\* The returned float64, kept as the exact quotient num/den it rounds:
\* duration = l/rate and frequency = zeroCrossings/(2*duration).  With l = 0
\* the duration is 0 and the quotient 0/0 is NaN; otherwise the result is 0
\* exactly when num = 0 and positive exactly when num > 0.
AnalyzeHighestFrequency(w, r) ==
    LET l == Len(w)
        zeroCrossings == ZeroCrossingsFrom(w, 2, 0)
    IN  IF l = 0 THEN [nan |-> TRUE, num |-> 0, den |-> 0]
        ELSE [nan |-> FALSE, num |-> zeroCrossings * r, den |-> 2 * l]

----------------------------------------------------------------------------
\* LowPassFilter: the one-pole filter.

\* The calls of the model: the cutoffs of the repository's test (1000) and
\* README (5000), and cutoffs whose alpha = dt/(rc+dt) is a dyadic fraction
\* in float64, so that every product and sum of the loop is exact.  The
\* cutoff is named by its decimal float64 literal.
FilterParams ==
    { [sampleRate |-> 44100, cutoffFrequency |-> "1000"],
      [sampleRate |-> 44100, cutoffFrequency |-> "5000"] } \cup
    { [sampleRate |-> 8000,  cutoffFrequency |-> "181.89136353359464"],
      [sampleRate |-> 8000,  cutoffFrequency |-> "424.4131815783875"],
      [sampleRate |-> 8000,  cutoffFrequency |-> "1273.2395447351623"],
      [sampleRate |-> 8000,  cutoffFrequency |-> "3819.7186342054883"],
      [sampleRate |-> 44100, cutoffFrequency |-> "1002.6761414789406"],
      [sampleRate |-> 44100, cutoffFrequency |-> "2339.5776634508616"],
      [sampleRate |-> 44100, cutoffFrequency |-> "7018.732990352584"],
      [sampleRate |-> 44100, cutoffFrequency |-> "21056.198971057747"] }

\* alpha = dt/(rc+dt) is kept as the record [num, den, pi]: the fraction
\* num/den, or with pi the real number PI*num/(den + PI*num).

\* rc, dt and alpha for the calls of FilterParams: 2*PI*fc/(r + 2*PI*fc)
\* for the cutoffs 1000 and 5000, and the fraction float64 computes for the
\* others.
Alpha(r, fc) ==
    CASE fc \in {"181.89136353359464", "1002.6761414789406"}  -> [num |-> 1, den |-> 8, pi |-> FALSE]
      [] fc \in {"424.4131815783875", "2339.5776634508616"}   -> [num |-> 1, den |-> 4, pi |-> FALSE]
      [] fc \in {"1273.2395447351623", "7018.732990352584"}   -> [num |-> 1, den |-> 2, pi |-> FALSE]
      [] fc \in {"3819.7186342054883", "21056.198971057747"}  -> [num |-> 3, den |-> 4, pi |-> FALSE]
      [] fc = "1000" /\ r = 44100 -> [num |-> 20, den |-> 441, pi |-> TRUE]
      [] fc = "5000" /\ r = 44100 -> [num |-> 100, den |-> 441, pi |-> TRUE]

\* a/b <= c/d for a, c >= 0 and b, d > 0, by their continued fractions.
RECURSIVE FracLeq(_, _, _, _)
FracLeq(a, b, c, d) ==
    IF a \div b # c \div d THEN a \div b < c \div d
    ELSE IF a % b = 0 THEN TRUE
    ELSE IF c % d = 0 THEN FALSE
    ELSE FracLeq(d, c % d, b, a % b)

\* a/b < PI for a >= 0 and 0 < b < 27000000: PI lies between its
\* convergents 80143857/25510582 and 5419351/1725033, and no fraction with
\* such a denominator lies between the two.
BelowPi(a, b) == FracLeq(a, b, 80143857, 25510582)

\* The integer part of alpha*n for alpha = PI*num/(den + PI*num), n >= 0:
\* the largest m with m*den <= PI*num*(n - m), between lo and hi.
RECURSIVE PiFloor(_, _, _, _)
PiFloor(alpha, n, lo, hi) ==
    IF hi - lo <= 1 THEN lo
    ELSE LET mid == (lo + hi) \div 2
         IN  IF BelowPi(mid * alpha.den, alpha.num * (n - mid))
             THEN PiFloor(alpha, n, mid, hi)
             ELSE PiFloor(alpha, n, lo, mid)

\* alpha*n for n >= 0: its integer part and whether it is that integer.
Scaled(alpha, n) ==
    IF alpha.pi THEN [floor |-> PiFloor(alpha, n, 0, n), exact |-> n = 0]
    ELSE [floor |-> (alpha.num * n) \div alpha.den, exact |-> (alpha.num * n) % alpha.den = 0]

\* prev + alpha*d with its fraction dropped toward zero.  The float64
\* product and sum are exact for the fractions of Alpha; for the alphas with
\* pi the real alpha*d is further from an integer than float64 rounding
\* moves it.
TruncSum(prev, alpha, d) ==
    LET s == Scaled(alpha, Abs(d))
    IN  IF s.exact THEN prev + Sign(d) * s.floor
        ELSE IF d > 0 THEN (IF prev + s.floor >= 0 THEN prev + s.floor ELSE prev + s.floor + 1)
        ELSE (IF prev - s.floor > 0 THEN prev - s.floor - 1 ELSE prev - s.floor)

\* int16(f) of a float64 f with integer part t: outside int16 the result is
\* what the build makes of it.
NarrowInt16(t) == IF t >= MinInt16 /\ t <= MaxInt16 THEN t ELSE conv

\* The value of the loop body before narrowing, its fraction dropped.
LowPassValue_plus(prev, x, alpha) == TruncSum(prev, alpha, x + prev)

LowPassValue(prev, x, alpha) == TruncSum(prev, alpha, x - prev)

RECURSIVE LowPassFrom(_, _, _, _)
LowPassFrom(w, i, filteredSamples, alpha) ==
    IF i > Len(w) THEN filteredSamples
    ELSE LowPassFrom(w, i + 1,
            Append(filteredSamples,
                   NarrowInt16(LowPassValue(filteredSamples[i - 1], w[i], alpha))),
            alpha)

\* The function from make on.  filteredSamples[0] = samples[0] indexes two
\* slices of length 0 when the waveform is empty: the call panics and
\* returns nothing.
LowPassWith(w, alpha) ==
    IF Len(w) = 0 THEN [panicked |-> TRUE, out |-> <<>>]
    ELSE [panicked |-> FALSE, out |-> LowPassFrom(w, 2, <<w[1]>>, alpha)]

LowPassFilter(w, r, fc) == LowPassWith(w, Alpha(r, fc))

----------------------------------------------------------------------------
\* The calls of the two signal functions, on one waveform.

InitSignal ==
    /\ samples \in {<<w>> : w \in SigWaveforms}
    /\ weights = <<>>
    /\ targetPeak = 0
    /\ conv \in ConvOutcomes
    /\ op = "init"
    /\ out = <<>>
    /\ out2 = <<>>
    /\ outNil = TRUE
    /\ err = NoError
    /\ peak = 0
    /\ divided = FALSE
    /\ OthersIdle

CallAnalyzeHighestFrequency ==
    /\ op = "init"
    /\ \E r \in SampleRates :
        /\ sampleRate' = r
        /\ frequency' = AnalyzeHighestFrequency(samples[1], r)
    /\ op' = "AnalyzeHighestFrequency"
    /\ UNCHANGED <<samples, weights, targetPeak, conv, out, out2, outNil, err, peak, divided>>
    /\ UNCHANGED <<cutoffFrequency, panicked, memVars, permuted, wavVars, cmdVars>>

CallLowPassFilter ==
    /\ op = "init"
    /\ \E p \in FilterParams :
        LET res == LowPassFilter(samples[1], p.sampleRate, p.cutoffFrequency)
        IN  /\ sampleRate' = p.sampleRate
            /\ cutoffFrequency' = p.cutoffFrequency
            /\ panicked' = res.panicked
            /\ out' = res.out
            /\ outNil' = res.panicked
    /\ op' = "LowPassFilter"
    /\ UNCHANGED <<samples, weights, targetPeak, conv, out2, err, peak, divided>>
    /\ UNCHANGED <<frequency, memVars, permuted, wavVars, cmdVars>>

NextSignal ==
    \/ CallAnalyzeHighestFrequency
    \/ CallLowPassFilter

SpecSignal == InitSignal /\ [][NextSignal]_vars

----------------------------------------------------------------------------
\* Claims about the signal functions (SpecSignal).

RECURSIVE CrossingsUpTo(_, _)
CrossingsUpTo(w, n) ==
    IF n < 2 THEN 0
    ELSE CrossingsUpTo(w, n - 1) +
         (IF w[n - 1] * w[n] < 0 THEN 1 ELSE 0)

Crossings(w) == CrossingsUpTo(w, Len(w))

IsZeroFrequency(f) == ~f.nan /\ f.num = 0 /\ f.den > 0

IsPositiveFrequency(f) == ~f.nan /\ f.num > 0 /\ f.den > 0

\* C11: AnalyzeHighestFrequency returns 0 for every waveform of length 0 or 1.
\* Refuted: an empty waveform makes the duration 0 and the result 0/0 = NaN.
C11_ShortWaveformIsZero ==
    (op = "AnalyzeHighestFrequency" /\ Len(samples[1]) <= 1)
        => IsZeroFrequency(frequency)

\* C12: one crossing is counted per consecutive pair of which one sample is
\* strictly positive and the other strictly negative (a zero sample never
\* counts), the result is crossings / (2 * length / sampleRate), and it is
\* strictly positive exactly when there is at least one crossing.
C12_ZeroCrossingFrequency ==
    op = "AnalyzeHighestFrequency" =>
        LET w == samples[1]
        IN  /\ Len(w) > 0 =>
                /\ ~frequency.nan
                /\ frequency.num * 2 * Len(w) = Crossings(w) * sampleRate * frequency.den
            /\ IsPositiveFrequency(frequency) <=> Crossings(w) > 0

C12_Witness ==
    /\ op = "AnalyzeHighestFrequency"
    /\ Len(samples[1]) = 3
    /\ samples[1][1] > 0 /\ samples[1][2] = 0 /\ samples[1][3] < 0
    /\ IsZeroFrequency(frequency)

\* C13: LowPassFilter returns normally for every waveform, the empty one
\* included, with as many samples as its input and the first one unchanged.
\* Refuted: the empty waveform makes the call panic.
C13_LowPassReturnsSameLength ==
    op = "LowPassFilter" =>
        /\ ~panicked
        /\ Len(out) = Len(samples[1])
        /\ Len(samples[1]) > 0 => out[1] = samples[1][1]

\* C19: every filtered sample after the first lies between the previous
\* filtered sample and the current input sample, all filtered samples lie
\* between the least and the greatest input sample, and the value narrowed
\* to int16 is never outside int16.
C19_LowPassStaysBetween ==
    (op = "LowPassFilter" /\ ~panicked) =>
        LET w == samples[1]
            alpha == Alpha(sampleRate, cutoffFrequency)
        IN  /\ Len(out) = Len(w)
            /\ \A i \in 2..Len(w) :
                /\ Min(out[i - 1], w[i]) <= out[i]
                /\ out[i] <= Max(out[i - 1], w[i])
                /\ LowPassValue(out[i - 1], w[i], alpha) >= MinInt16
                /\ LowPassValue(out[i - 1], w[i], alpha) <= MaxInt16
            /\ \A i \in 1..Len(w) : \E j, k \in 1..Len(w) : w[j] <= out[i] /\ out[i] <= w[k]

C19_Witness ==
    /\ op = "LowPassFilter"
    /\ ~panicked
    /\ Len(out) = 3
    /\ samples[1][1] = MinInt16 /\ samples[1][2] = MaxInt16
    /\ out[1] < out[2] /\ out[2] < samples[1][2]
    /\ samples[1][3] < out[3] /\ out[3] < out[2]

----------------------------------------------------------------------------
\* Claims about the rounding of NormalizeSamples (SpecUtil) and the sign of
\* RMSMixing (Spec).

\* The integers nearest to a/p, p > 0: both neighbours when a/p is a tie.
NearestTo(a, p) == {n \in {a \div p, (a \div p) + 1} : 2 * Abs(a - n * p) <= p}

\* C17 (as claimed, on waveforms without -32768, whose peak is their
\* largest absolute value): with a non-zero peak NormalizeSamples returns
\* at every index saturate(round(input[i] * targetPeak / currentPeak)), in a
\* waveform of the same length.  Refuted: the scaled sample is truncated.
C17_NormalizeRounds ==
    (/\ op = "NormalizeSamples"
     /\ \A i \in 1..Len(samples[1]) : samples[1][i] # MinInt16
     /\ FindPeakAmplitude(samples[1]) # 0) =>
        /\ Len(out) = Len(samples[1])
        /\ \A i \in 1..Len(out) :
            \E n \in NearestTo(samples[1][i] * targetPeak, FindPeakAmplitude(samples[1])) :
                out[i] = Saturate(n)

\* C18: every sample of a successful RMSMixing result is non-negative, and
\* the root that reaches the clamp is never below MinInt16 (the lower branch
\* is not taken); the upper clamp is taken (C18_Witness).
C18_RMSNonNegative ==
    (op = "RMSMixing" /\ err = NoError) =>
        \A i \in 1..Len(out) :
            LET s == RMSInner(samples, Len(samples[1]), i, 1, 0, 0)
                rms == RmsOf(s.q, s.r, Len(samples))
            IN  /\ out[i] >= 0
                /\ s.ok
                /\ rms.floor >= 0
                /\ out[i] = MaxInt16 \/ out[i] = rms.floor

C18_Witness ==
    /\ op = "RMSMixing"
    /\ err = NoError
    /\ \E i \in 1..Len(out) :
        /\ \A j \in 1..Len(samples) : samples[j][i] = MinInt16
        /\ RmsOf(RMSInner(samples, Len(samples[1]), i, 1, 0, 0).q,
                 RMSInner(samples, Len(samples[1]), i, 1, 0, 0).r,
                 Len(samples)).floor > MaxInt16
        /\ out[i] = MaxInt16

----------------------------------------------------------------------------
\* A mixing strategy called twice: on a list of waveforms and on the same
\* waveforms (and weights) in another order.

PermVals == {MinInt16, MaxInt16}
PermWaveLists == SeqsUpTo(SeqsUpTo(PermVals, MaxLen), MaxWaves)

\* The orders of n arguments.
Orders(n) == {f \in [1..n -> 1..n] : \A i, j \in 1..n : f[i] = f[j] => i = j}

Permute(list, f) == [i \in 1..Len(list) |-> list[f[i]]]

InitPerm ==
    /\ samples \in PermWaveLists
    /\ weights = <<>>
    /\ targetPeak = 0
    /\ conv = MinInt16
    /\ op = "init"
    /\ out = <<>>
    /\ out2 = <<>>
    /\ outNil = TRUE
    /\ err = NoError
    /\ peak = 0
    /\ divided = FALSE
    /\ OthersIdle

ReturnPermuted(ws, wts, res) ==
    permuted' = [samples |-> ws, weights |-> wts, out |-> res.combined,
                 isNil |-> res.isNil, err |-> res.err]

CallLinearSummationTwice ==
    /\ op = "init"
    /\ Return("LinearSummation", LinearSummation(samples))
    /\ \E f \in Orders(Len(samples)) :
        ReturnPermuted(Permute(samples, f), <<>>, LinearSummation(Permute(samples, f)))
    /\ UNCHANGED <<samples, weights, targetPeak, conv, out2, peak, divided>>
    /\ UNCHANGED <<sigVars, memVars, wavVars, cmdVars>>

CallWeightedSummationTwice ==
    /\ op = "init"
    /\ \E wts \in {x \in WeightLists : Len(x) = Len(samples)} :
        /\ weights' = wts
        /\ Return("WeightedSummation", WeightedSummation(wts, samples))
        /\ \E f \in Orders(Len(samples)) :
            ReturnPermuted(Permute(samples, f), Permute(wts, f),
                           WeightedSummation(Permute(wts, f), Permute(samples, f)))
    /\ UNCHANGED <<samples, targetPeak, conv, out2, peak, divided>>
    /\ UNCHANGED <<sigVars, memVars, wavVars, cmdVars>>

CallRMSMixingTwice ==
    /\ op = "init"
    /\ Return("RMSMixing", RMSMixing(samples))
    /\ \E f \in Orders(Len(samples)) :
        ReturnPermuted(Permute(samples, f), <<>>, RMSMixing(Permute(samples, f)))
    /\ UNCHANGED <<samples, weights, targetPeak, conv, out2, peak, divided>>
    /\ UNCHANGED <<sigVars, memVars, wavVars, cmdVars>>

NextPerm ==
    \/ CallLinearSummationTwice
    \/ CallWeightedSummationTwice
    \/ CallRMSMixingTwice

SpecPerm == InitPerm /\ [][NextPerm]_vars

\* C15: a mixing strategy gives the same outcome on a list of waveforms and
\* on every permutation of it (the weights permuted alike): the same output
\* waveform, or a failure in both orders.  Refuted: with an empty waveform
\* first the length check never runs and the call succeeds, in another order
\* it fails.
C15_OrderIndependent ==
    op \in Mixers =>
        \/ err # NoError /\ permuted.err # NoError
        \/ err = NoError /\ permuted.err = NoError /\ out = permuted.out

----------------------------------------------------------------------------
\* The library functions on slices: mem holds the backing arrays, a slice
\* is the address of its array, make appends a new array.  A function reads
\* mem at its arguments and returns addresses; an array made before a
\* failing return is unreachable and is not kept.

MemVals == {MinInt16, 2, MaxInt16}
MemWaveforms == SeqsUpTo(MemVals, MaxLen)

\* The nil slice.
NilAddr == 0

\* make([]int16, n) filled by the function's loop with the samples of buf.
Made(m, buf) == [mem |-> Append(m, buf), ret |-> <<Len(m) + 1>>]

Slices(m, as) == [j \in 1..Len(as) |-> m[as[j]]]

\* return combined, nil  or  return nil, err  of the mixing strategies.
MemMixed(m, res) ==
    IF res.isNil THEN [mem |-> m, ret |-> <<NilAddr>>]
    ELSE Made(m, res.combined)

MemLinearSummation(m, as) == MemMixed(m, LinearSummation(Slices(m, as)))

MemWeightedSummation(m, wts, as) == MemMixed(m, WeightedSummation(wts, Slices(m, as)))

MemRMSMixing(m, as) == MemMixed(m, RMSMixing(Slices(m, as)))

\* The loop storing into samples[i] instead of normalizedSamples[i].
MemNormalizeSamples_inPlace(m, a, t) ==
    LET res == NormalizeSamples(m[a], t)
    IN  [mem |-> [m EXCEPT ![a] = res.out], ret |-> <<a>>]

\* return samples with a zero peak, else the array made for the result.
MemNormalizeSamples(m, a, t) ==
    LET res == NormalizeSamples(m[a], t)
    IN  IF ~res.divided THEN [mem |-> m, ret |-> <<a>>]
        ELSE Made(m, res.out)

\* The panic on the empty waveform comes after make and before any store.
MemLowPassFilter(m, a, r, fc) ==
    LET res == LowPassFilter(m[a], r, fc)
    IN  IF res.panicked THEN [mem |-> m, ret |-> <<>>]
        ELSE Made(m, res.out)

\* The waveform that needs no padding is returned as it came.
MemPadSamples(m, a1, a2) ==
    LET res == PadSamples(m[a1], m[a2])
    IN  IF Len(m[a1]) = Len(m[a2]) THEN [mem |-> m, ret |-> <<a1, a2>>]
        ELSE IF Len(m[a1]) < Len(m[a2])
        THEN [mem |-> Append(m, res[1]), ret |-> <<Len(m) + 1, a2>>]
        ELSE [mem |-> Append(m, res[2]), ret |-> <<a1, Len(m) + 1>>]

InitMem ==
    /\ mem \in {<<a, b>> : a \in MemWaveforms, b \in MemWaveforms}
    /\ args \in {<<1, 2>>, <<2, 1>>, <<1, 1>>}
    /\ samples = Slices(mem, args)
    /\ ret = <<>>
    /\ weights = <<>>
    /\ targetPeak = 0
    /\ conv \in ConvOutcomes
    /\ op = "init"
    /\ out = <<>>
    /\ out2 = <<>>
    /\ outNil = TRUE
    /\ err = NoError
    /\ peak = 0
    /\ divided = FALSE
    /\ SigIdle /\ PermIdle /\ WavIdle /\ CmdIdle

\* The call returned: what it left in memory and the slices it returned.
Returned(name, res) ==
    /\ op' = name
    /\ mem' = res.mem
    /\ ret' = res.ret

MemLinearSummationCall ==
    /\ op = "init"
    /\ Returned("LinearSummation", MemLinearSummation(mem, args))
    /\ UNCHANGED <<samples, weights, targetPeak, conv, out, out2, outNil, err, peak, divided>>
    /\ UNCHANGED <<sigVars, args, permuted, wavVars, cmdVars>>

MemWeightedSummationCall ==
    /\ op = "init"
    /\ \E wts \in WeightLists :
        /\ weights' = wts
        /\ Returned("WeightedSummation", MemWeightedSummation(mem, wts, args))
    /\ UNCHANGED <<samples, targetPeak, conv, out, out2, outNil, err, peak, divided>>
    /\ UNCHANGED <<sigVars, args, permuted, wavVars, cmdVars>>

MemRMSMixingCall ==
    /\ op = "init"
    /\ Returned("RMSMixing", MemRMSMixing(mem, args))
    /\ UNCHANGED <<samples, weights, targetPeak, conv, out, out2, outNil, err, peak, divided>>
    /\ UNCHANGED <<sigVars, args, permuted, wavVars, cmdVars>>

MemNormalizeSamplesCall ==
    /\ op = "init"
    /\ \E t \in TargetVals :
        /\ targetPeak' = t
        /\ Returned("NormalizeSamples", MemNormalizeSamples(mem, args[1], t))
    /\ UNCHANGED <<samples, weights, conv, out, out2, outNil, err, peak, divided>>
    /\ UNCHANGED <<sigVars, args, permuted, wavVars, cmdVars>>

MemLowPassFilterCall ==
    /\ op = "init"
    /\ \E p \in FilterParams :
        /\ sampleRate' = p.sampleRate
        /\ cutoffFrequency' = p.cutoffFrequency
        /\ panicked' = LowPassFilter(mem[args[1]], p.sampleRate, p.cutoffFrequency).panicked
        /\ Returned("LowPassFilter",
                    MemLowPassFilter(mem, args[1], p.sampleRate, p.cutoffFrequency))
    /\ UNCHANGED <<samples, weights, targetPeak, conv, out, out2, outNil, err, peak, divided>>
    /\ UNCHANGED <<frequency, args, permuted, wavVars, cmdVars>>

MemPadSamplesCall ==
    /\ op = "init"
    /\ Returned("PadSamples", MemPadSamples(mem, args[1], args[2]))
    /\ UNCHANGED <<samples, weights, targetPeak, conv, out, out2, outNil, err, peak, divided>>
    /\ UNCHANGED <<sigVars, args, permuted, wavVars, cmdVars>>

\* FindPeakAmplitude and AnalyzeHighestFrequency make no slice and store
\* into none: they return a number.
MemFindPeakAmplitudeCall ==
    /\ op = "init"
    /\ op' = "FindPeakAmplitude"
    /\ peak' = FindPeakAmplitude(mem[args[1]])
    /\ UNCHANGED <<samples, weights, targetPeak, conv, out, out2, outNil, err, divided>>
    /\ UNCHANGED <<sigVars, memVars, permuted, wavVars, cmdVars>>

MemAnalyzeHighestFrequencyCall ==
    /\ op = "init"
    /\ op' = "AnalyzeHighestFrequency"
    /\ \E r \in SampleRates :
        /\ sampleRate' = r
        /\ frequency' = AnalyzeHighestFrequency(mem[args[1]], r)
    /\ UNCHANGED <<samples, weights, targetPeak, conv, out, out2, outNil, err, peak, divided>>
    /\ UNCHANGED <<cutoffFrequency, panicked, memVars, permuted, wavVars, cmdVars>>

NextMem ==
    \/ MemLinearSummationCall
    \/ MemWeightedSummationCall
    \/ MemRMSMixingCall
    \/ MemNormalizeSamplesCall
    \/ MemLowPassFilterCall
    \/ MemPadSamplesCall
    \/ MemFindPeakAmplitudeCall
    \/ MemAnalyzeHighestFrequencyCall

SpecMem == InitMem /\ [][NextMem]_vars

\* C14: after a call of any library function, returning, failing or
\* panicking, every waveform passed to it holds the samples it held before
\* the call.
C14_InputsUntouched ==
    op # "init" =>
        /\ Len(mem) >= 2
        /\ \A j \in 1..Len(args) : mem[args[j]] = samples[j]

C14_Witness ==
    /\ op = "NormalizeSamples"
    /\ Len(ret) = 1
    /\ ret[1] # args[1]
    /\ mem[ret[1]] # samples[1]
    /\ mem[args[1]] = samples[1]

----------------------------------------------------------------------------
\* SaveWav and LoadWav.  The file is what the encoder of go-audio/wav
\* leaves of an IntBuffer: the format of the header and, at 16 bits, one
\* two's-complement word per entry of Data.  The decoder gives back the
\* format and the words as signed ints.

WavName == "out.wav"

NoFile == [sampleRate |-> 0, numChannels |-> 0, bitDepth |-> 0, data |-> <<>>]

ErrCreate == "create failed"
ErrOpen == "open failed"

\* A 16-bit word of the file for the int v, and the int of a word.
EncodeWord(v) == v % 65536
DecodeWord(wd) == IF wd >= 32768 THEN wd - 65536 ELSE wd

\* int16(v) of an int v.
Int16Of(v) == DecodeWord(v % 65536)

\* encoder.Write(intBuffer) and encoder.Close().
Encoded(r, bitDepth, numChannels, data) ==
    [sampleRate |-> r, numChannels |-> numChannels, bitDepth |-> bitDepth,
     data |-> [i \in 1..Len(data) |-> EncodeWord(data[i])]]

\* decoder.FullPCMBuffer().
Decoded(file) ==
    [Data |-> [i \in 1..Len(file.data) |-> DecodeWord(file.data[i])],
     NumChannels |-> file.numChannels,
     SampleRate |-> file.sampleRate]

\* The encoder opened for two channels.
SaveWav_stereo(w, r) == Encoded(r, 16, 2, [i \in 1..Len(w) |-> w[i]])

\* The file SaveWav leaves once os.Create has succeeded.
SaveWav(w, r) == Encoded(r, 16, 1, [i \in 1..Len(w) |-> w[i]])

\* What LoadWav returns once os.Open has succeeded.
LoadWav(file) ==
    LET intBuffer == Decoded(file)
        l == Len(intBuffer.Data)
    IN  IF intBuffer.NumChannels = 1
        THEN [samples |-> [k \in 1..(2 * l) |-> Int16Of(intBuffer.Data[(k + 1) \div 2])],
              sampleRate |-> intBuffer.SampleRate, err |-> NoError]
        ELSE [samples |-> [k \in 1..l |-> Int16Of(intBuffer.Data[k])],
              sampleRate |-> intBuffer.SampleRate, err |-> NoError]

\* The stereo files that may lie at the name before the call.
OldFiles == {Encoded(r, 16, 2, d) : r \in SampleRates, d \in {<<>>, <<2, -11>>}}

InitWav ==
    /\ samples \in {<<w>> : w \in SigWaveforms}
    /\ disk \in [{WavName} -> OldFiles \cup {NoFile}]
    /\ loaded = [samples |-> <<>>, sampleRate |-> 0, err |-> NoError]
    /\ weights = <<>>
    /\ targetPeak = 0
    /\ conv = MinInt16
    /\ op = "init"
    /\ out = <<>>
    /\ out2 = <<>>
    /\ outNil = TRUE
    /\ err = NoError
    /\ peak = 0
    /\ divided = FALSE
    /\ SigIdle /\ MemIdle /\ PermIdle /\ CmdIdle

\* SaveWav(WavName, samples[1], r); os.Create fails or succeeds.
CallSaveWav ==
    /\ op = "init"
    /\ op' = "SaveWav"
    /\ \E r \in SampleRates, created \in BOOLEAN :
        /\ sampleRate' = r
        /\ IF created
           THEN /\ disk' = [disk EXCEPT ![WavName] = SaveWav(samples[1], r)]
                /\ err' = NoError
           ELSE /\ disk' = disk
                /\ err' = ErrCreate
    /\ UNCHANGED <<samples, weights, targetPeak, conv, out, out2, outNil, peak, divided>>
    /\ UNCHANGED <<cutoffFrequency, frequency, panicked, memVars, permuted, loaded, cmdVars>>

\* LoadWav(WavName), before or after the save; os.Open fails when there is
\* no file and may fail when there is one.
CallLoadWav ==
    /\ op \in {"init", "SaveWav"}
    /\ op' = "LoadWav"
    /\ \E opened \in BOOLEAN :
        IF opened /\ disk[WavName] # NoFile
        THEN loaded' = LoadWav(disk[WavName])
        ELSE loaded' = [samples |-> <<>>, sampleRate |-> 0, err |-> ErrOpen]
    /\ UNCHANGED <<samples, weights, targetPeak, conv, out, out2, outNil, err, peak, divided>>
    /\ UNCHANGED <<sigVars, memVars, permuted, disk, cmdVars>>

NextWav ==
    \/ CallSaveWav
    \/ CallLoadWav

SpecWav == InitWav /\ [][NextWav]_vars

\* SaveWav was called with sampleRate and returned nil, then LoadWav was
\* called and returned a nil error.
SavedAndLoaded ==
    /\ op = "LoadWav"
    /\ sampleRate # 0
    /\ err = NoError
    /\ loaded.err = NoError

\* C16: saving w at rate r and loading the file back gives the rate r and
\* 2*len(w) samples, loaded[2i] = loaded[2i+1] = w[i] (0-based).
C16_SaveLoadRoundTrip ==
    SavedAndLoaded =>
        /\ loaded.sampleRate = sampleRate
        /\ Len(loaded.samples) = 2 * Len(samples[1])
        /\ \A i \in 1..Len(samples[1]) :
            /\ loaded.samples[2 * i - 1] = samples[1][i]
            /\ loaded.samples[2 * i] = samples[1][i]

C16_Witness ==
    /\ SavedAndLoaded
    /\ samples[1] = <<MinInt16, -11, MaxInt16>>
    /\ loaded.samples = <<MinInt16, MinInt16, -11, -11, MaxInt16, MaxInt16>>

----------------------------------------------------------------------------
\* The rms command: main, from the check of the argument count on.

MaxFiles == 2
InputNames == {"a.wav", "b.wav"}
OutputFile == "combined.wav"

\* The WAV files that may lie at the input names: mono at either rate, and
\* one stereo file.
CmdData == {<<>>, <<-11>>, <<2, -11>>, <<MinInt16, MaxInt16, 2>>}
CmdFiles ==
    {Encoded(r, 16, 1, d) : r \in SampleRates, d \in CmdData}
        \cup {Encoded(8000, 16, 2, <<2, -11>>)}

\* f > g of two float64 kept as quotients, NaN comparing false.
FreqGreater(f, g) == ~f.nan /\ ~g.nan /\ f.num * g.den > g.num * f.den

\* rc, dt and alpha for a cutoff that AnalyzeHighestFrequency returned at
\* the same rate r: the cutoff is zeroCrossings*r/(2*l), so that alpha is
\* PI*2*zeroCrossings/(2*l + PI*2*zeroCrossings); a cutoff of 0 makes rc
\* infinite and alpha 0.
AlphaOfFrequency(r, f) ==
    IF f.num = 0 THEN [num |-> 0, den |-> 1, pi |-> FALSE]
    ELSE [num |-> (2 * f.num) \div r, den |-> f.den, pi |-> TRUE]

InitRms ==
    /\ inputFiles \in SeqsUpTo(InputNames, MaxFiles)
    /\ disk \in {d \in [InputNames \cup {OutputFile} -> CmdFiles \cup {NoFile}] :
                    d[OutputFile] = NoFile}
    /\ pc = "start"
    /\ locals = [combined |-> <<>>, sampleRate |-> 0, next |-> 0, loudestPeak |-> 0,
                 highestFrequency |-> [nan |-> FALSE, num |-> 0, den |-> 1]]
    /\ mixed = <<>>
    /\ loaded = [samples |-> <<>>, sampleRate |-> 0, err |-> NoError]
    /\ samples = <<>>
    /\ weights = <<>>
    /\ targetPeak = 0
    /\ conv \in ConvOutcomes
    /\ op = "init"
    /\ out = <<>>
    /\ out2 = <<>>
    /\ outNil = TRUE
    /\ err = NoError
    /\ peak = 0
    /\ divided = FALSE
    /\ SigIdle /\ MemIdle /\ PermIdle

\* Fewer than two arguments print the usage; else the first file is loaded
\* into combined and the two running maxima are set up.
LoadFirst ==
    /\ pc = "start"
    /\ IF Len(inputFiles) < 2
       THEN pc' = "usage" /\ UNCHANGED locals
       ELSE IF disk[inputFiles[1]] = NoFile
       THEN pc' = "fatal" /\ UNCHANGED locals
       ELSE LET first == LoadWav(disk[inputFiles[1]])
            IN  /\ pc' = "loop"
                /\ locals' = [combined |-> first.samples,
                              sampleRate |-> first.sampleRate,
                              highestFrequency |-> [nan |-> FALSE, num |-> 0, den |-> 1],
                              loudestPeak |-> FindPeakAmplitude(first.samples),
                              next |-> 1]
    /\ UNCHANGED <<mixVars, sigVars, memVars, permuted, wavVars, inputFiles, mixed>>

\* for _, inputFile := range inputFiles
LoopFiles(files) == files

\* One round of the loop, for the file at position next of LoopFiles.
MixNext ==
    /\ pc = "loop"
    /\ LET inputFile == LoopFiles(inputFiles)[locals.next]
           last == locals.next = Len(LoopFiles(inputFiles))
       IN  IF disk[inputFile] = NoFile
           THEN pc' = "fatal" /\ UNCHANGED <<locals, mixed>>
           ELSE LET wave == LoadWav(disk[inputFile]).samples
                    sr == LoadWav(disk[inputFile]).sampleRate
                    currentHighestFrequency == AnalyzeHighestFrequency(wave, sr)
                    currentPeak == FindPeakAmplitude(wave)
                    padded == PadSamples(locals.combined, wave)
                    res == RMSMixing(padded)
                IN  IF sr # locals.sampleRate \/ res.err # NoError
                    THEN pc' = "fatal" /\ UNCHANGED <<locals, mixed>>
                    ELSE /\ pc' = IF last THEN "filter" ELSE "loop"
                         /\ mixed' = Append(mixed, inputFile)
                         /\ locals' = [locals EXCEPT
                                !.combined = res.combined,
                                !.highestFrequency =
                                    IF FreqGreater(currentHighestFrequency, @)
                                    THEN currentHighestFrequency ELSE @,
                                !.loudestPeak = IF currentPeak > @ THEN currentPeak ELSE @,
                                !.next = @ + 1]
    /\ UNCHANGED <<mixVars, sigVars, memVars, permuted, wavVars, inputFiles>>

\* combined = LowPassFilter(combined, sampleRate, highestFrequency)
ApplyLowPassFilter ==
    /\ pc = "filter"
    /\ LET res == LowPassWith(locals.combined,
                              AlphaOfFrequency(locals.sampleRate, locals.highestFrequency))
       IN  IF res.panicked
           THEN pc' = "panic" /\ panicked' = TRUE /\ UNCHANGED locals
           ELSE /\ pc' = "normalize"
                /\ locals' = [locals EXCEPT !.combined = res.out]
                /\ UNCHANGED panicked
    /\ UNCHANGED <<mixVars, sampleRate, cutoffFrequency, frequency>>
    /\ UNCHANGED <<memVars, permuted, wavVars, inputFiles, mixed>>

\* combined = NormalizeSamples(combined, loudestPeak)
NormalizeLoudness ==
    /\ pc = "normalize"
    /\ pc' = "save"
    /\ locals' = [locals EXCEPT !.combined = NormalizeSamples(@, locals.loudestPeak).out]
    /\ UNCHANGED <<mixVars, sigVars, memVars, permuted, wavVars, inputFiles, mixed>>

\* SaveWav(*outputFile, combined, sampleRate); os.Create fails or succeeds.
SaveResult ==
    /\ pc = "save"
    /\ \E created \in BOOLEAN :
        IF created
        THEN /\ disk' = [disk EXCEPT ![OutputFile] = SaveWav(locals.combined, locals.sampleRate)]
             /\ pc' = "done"
        ELSE /\ disk' = disk
             /\ pc' = "fatal"
    /\ UNCHANGED <<mixVars, sigVars, memVars, permuted, loaded, inputFiles, locals, mixed>>

NextRms ==
    \/ LoadFirst
    \/ MixNext
    \/ ApplyLowPassFilter
    \/ NormalizeLoudness
    \/ SaveResult

SpecRms == InitRms /\ [][NextRms]_vars

\* The second input file onward.
AdditionalFiles == IF inputFiles = <<>> THEN <<>> ELSE Tail(inputFiles)

\* C20: combined starts as the first input file, and the files mixed into
\* it are the second file onward, each once and in command-line order: at
\* every moment the files mixed so far are the first ones of the additional
\* files, and when the loop is over there have been N-1 mixing steps for N
\* input files.  Refuted: the loop runs over all of inputFiles, the first
\* file is loaded again and mixed into itself, and there are N steps.
C20_AdditionalFilesMixedOnce ==
    /\ Len(mixed) <= Len(AdditionalFiles)
    /\ mixed = SubSeq(AdditionalFiles, 1, Len(mixed))
    /\ pc \in {"filter", "normalize", "save", "done", "panic"} =>
            Len(mixed) = Len(inputFiles) - 1

\* The loop of the command is over: LowPassFilter is about to be called or
\* has been called with locals.sampleRate and locals.highestFrequency.
FilterReached == pc \in {"filter", "normalize", "save", "done", "panic"}

\* C21: whenever the rms command calls LowPassFilter, the cutoffFrequency it
\* passes (the largest AnalyzeHighestFrequency result of the input files) is
\* strictly greater than 0 and the sampleRate it passes is greater than 0.
\* Refuted: with no zero crossing in any input file highestFrequency keeps
\* its initial 0.0 and that is passed as the cutoff.
C21_CutoffPositive ==
    FilterReached =>
        /\ IsPositiveFrequency(locals.highestFrequency)
        /\ locals.sampleRate > 0

----------------------------------------------------------------------------
\* A mixing strategy applied to the pair PadSamples returns, as a call of
\* its own on two waveforms and as the pad-then-mix step of the rms command.

MixPairs == {<<a, b>> : a \in MixWaveforms, b \in MixWaveforms}

InitPadMix ==
    /\ samples \in MixPairs
    /\ weights = <<>>
    /\ targetPeak = 0
    /\ conv = MinInt16
    /\ op = "init"
    /\ out = <<>>
    /\ out2 = <<>>
    /\ outNil = TRUE
    /\ err = NoError
    /\ peak = 0
    /\ divided = FALSE
    /\ OthersIdle

PadThenLinearSummation ==
    /\ pc = "idle" /\ op = "init"
    /\ Return("LinearSummation", LinearSummation(PadSamples(samples[1], samples[2])))
    /\ UNCHANGED <<samples, weights, targetPeak, conv, out2, peak, divided>>
    /\ UNCHANGED others

PadThenWeightedSummation ==
    /\ pc = "idle" /\ op = "init"
    /\ \E wts \in WeightLists :
        /\ weights' = wts
        /\ Return("WeightedSummation",
                  WeightedSummation(wts, PadSamples(samples[1], samples[2])))
    /\ UNCHANGED <<samples, targetPeak, conv, out2, peak, divided>>
    /\ UNCHANGED others

PadThenRMSMixing ==
    /\ pc = "idle" /\ op = "init"
    /\ Return("RMSMixing", RMSMixing(PadSamples(samples[1], samples[2])))
    /\ UNCHANGED <<samples, weights, targetPeak, conv, out2, peak, divided>>
    /\ UNCHANGED others

NextPadMix ==
    \/ PadThenLinearSummation
    \/ PadThenWeightedSummation
    \/ PadThenRMSMixing
    \/ NextRms

SpecPadMix == (InitPadMix \/ InitRms) /\ [][NextPadMix]_vars

\* C22: a mixing strategy applied to the pair PadSamples(a, b) never fails
\* with the length-mismatch error and, called with as many weights as
\* waveforms where it takes weights, returns max(len(a), len(b)) samples; in
\* every round of the loop of the rms command the pad-then-mix step on
\* combined and the loaded file does not fail and returns the longer length.
C22_PadThenMixNeverMismatches ==
    /\ (pc = "idle" /\ op \in Mixers) =>
        /\ err # ErrMismatch
        /\ (op # "WeightedSummation" \/ Len(weights) = 2) =>
            /\ err = NoError
            /\ ~outNil
            /\ Len(out) = Max(Len(samples[1]), Len(samples[2]))
    /\ (pc = "loop" /\ disk[LoopFiles(inputFiles)[locals.next]] # NoFile) =>
        LET wave == LoadWav(disk[LoopFiles(inputFiles)[locals.next]]).samples
            res == RMSMixing(PadSamples(locals.combined, wave))
        IN  /\ res.err = NoError
            /\ Len(res.combined) = Max(Len(locals.combined), Len(wave))

C22_Witness ==
    /\ pc = "idle"
    /\ op = "RMSMixing"
    /\ Len(samples[1]) = 0
    /\ Len(samples[2]) = 2
    /\ err = NoError
    /\ Len(out) = 2

====
